---- MODULE Spec2Model ----
(***************************************************************************)
(* A model of the BigInt arbitrary-precision integer library               *)
(* (src/BigInt.h, src/BigInt.cpp).                                          *)
(*                                                                         *)
(* A BigInt is a record [digits, negative]: digits is the std::vector<int> *)
(* of decimal digits, least-significant digit first (TLA+ index 1 is the   *)
(* C++ index 0), negative is the sign flag.  Every member function is an   *)
(* operator computed the way the code computes it, loop by loop.           *)
(***************************************************************************)
EXTENDS Integers, Sequences, FiniteSets, TLC

VARIABLES x, y, z, n, s, op, out, err

vars == <<x, y, z, n, s, op, out, err>>

(***************************************************************************)
(* Representation                                                          *)
(***************************************************************************)

\* BigInt::BigInt(): digits({0}), negative(false)
BigIntDefault == [digits |-> <<0>>, negative |-> FALSE]

\* const BigInt BigInt::ZERO(0), ONE(1), TWO(2)
ZERO == [digits |-> <<0>>, negative |-> FALSE]

ONE == [digits |-> <<1>>, negative |-> FALSE]

TWO == [digits |-> <<2>>, negative |-> FALSE]

\* digits.back() == 0 is popped while more than one digit is left
RECURSIVE removeLeadingZeros(_)
removeLeadingZeros(d) ==
    IF Len(d) > 1 /\ d[Len(d)] = 0
    THEN removeLeadingZeros(SubSeq(d, 1, Len(d) - 1))
    ELSE d

normalize(b) ==
    LET d == removeLeadingZeros(b.digits)
    IN  [digits |-> d,
         negative |-> IF Len(d) = 1 /\ d[1] = 0 THEN FALSE ELSE b.negative]

\* the loop of compareMagnitude, i is the C++ index
RECURSIVE compareFrom(_, _, _)
compareFrom(a, b, i) ==
    IF i < 0 THEN 0
    ELSE IF a.digits[i + 1] # b.digits[i + 1]
         THEN (IF a.digits[i + 1] < b.digits[i + 1] THEN -1 ELSE 1)
         ELSE compareFrom(a, b, i - 1)

compareMagnitude(a, b) ==
    IF Len(a.digits) # Len(b.digits)
    THEN (IF Len(a.digits) < Len(b.digits) THEN -1 ELSE 1)
    ELSE compareFrom(a, b, Len(a.digits) - 1)

isZero(a) == Len(a.digits) = 1 /\ a.digits[1] = 0

isNegative(a) == a.negative /\ ~isZero(a)

isPositive(a) == ~a.negative /\ ~isZero(a)

\* operator==
opEq(a, b) == a.negative = b.negative /\ a.digits = b.digits

opNotEq(a, b) == ~opEq(a, b)

\* operator<
opLess(a, b) ==
    IF a.negative # b.negative THEN a.negative
    ELSE IF a.negative THEN compareMagnitude(a, b) > 0
         ELSE compareMagnitude(a, b) < 0

opLessEq(a, b) == opLess(a, b) \/ opEq(a, b)

opGreater(a, b) == ~opLessEq(a, b)

opGreaterEq(a, b) == ~opLess(a, b)

\* unary operator-: the flag is flipped, the result is not normalized
opNeg(a) == [digits |-> a.digits, negative |-> ~a.negative]

\* unary operator+
opPlus(a) == a

\* abs(const BigInt&)
abs(a) == IF isNegative(a) THEN opNeg(a) ELSE a

min(a, b) == IF opLess(a, b) THEN a ELSE b

max(a, b) == IF opGreater(a, b) THEN a ELSE b

\* BigInt::clear()
clear(a) == [digits |-> <<0>>, negative |-> FALSE]

(***************************************************************************)
(* Failure signalling: a throwing operation yields Raise(kind) and no      *)
(* value, a returning operation Return(v).                                 *)
(***************************************************************************)

Raise(e) == [err |-> e]

Return(v) == [err |-> "none", val |-> v]

(***************************************************************************)
(* Addition and subtraction                                                *)
(***************************************************************************)

Max(a, b) == IF a < b THEN b ELSE a

\* addLoop without "|| carry" in its test: the carry out of the last column
\* is dropped
RECURSIVE addLoopDropCarry(_, _, _, _, _)
addLoopDropCarry(d1, d2, i, carry, acc) ==
    IF i < Max(Len(d1), Len(d2))
    THEN LET sum == carry + (IF i < Len(d1) THEN d1[i + 1] ELSE 0)
                          + (IF i < Len(d2) THEN d2[i + 1] ELSE 0)
         IN  addLoopDropCarry(d1, d2, i + 1, sum \div 10, Append(acc, sum % 10))
    ELSE acc

\* for (i = 0; i < maxSize || carry; ++i), i is the C++ index
RECURSIVE addLoop(_, _, _, _, _)
addLoop(d1, d2, i, carry, acc) ==
    IF i < Max(Len(d1), Len(d2)) \/ carry # 0
    THEN LET sum == carry + (IF i < Len(d1) THEN d1[i + 1] ELSE 0)
                          + (IF i < Len(d2) THEN d2[i + 1] ELSE 0)
         IN  addLoop(d1, d2, i + 1, sum \div 10, Append(acc, sum % 10))
    ELSE acc

\* for (i = 0; i < digits.size(); ++i) with borrow; the final borrow is kept
RECURSIVE borrowLoop(_, _, _, _, _)
borrowLoop(d1, d2, i, borrow, acc) ==
    IF i < Len(d1)
    THEN LET diff == d1[i + 1] - borrow - (IF i < Len(d2) THEN d2[i + 1] ELSE 0)
         IN  IF diff < 0
             THEN borrowLoop(d1, d2, i + 1, 1, Append(acc, diff + 10))
             ELSE borrowLoop(d1, d2, i + 1, 0, Append(acc, diff))
    ELSE [digits |-> acc, borrow |-> borrow]

RECURSIVE opAdd(_, _), opSub(_, _)
\* operator+
opAdd(a, b) ==
    IF a.negative # b.negative
    THEN (IF a.negative THEN opSub(b, opNeg(a)) ELSE opSub(a, opNeg(b)))
    ELSE [digits |-> addLoop(a.digits, b.digits, 0, 0, <<>>),
          negative |-> a.negative]

\* operator-
opSub(a, b) ==
    IF a.negative # b.negative
    THEN (IF a.negative THEN opNeg(opAdd(opNeg(a), b)) ELSE opAdd(a, opNeg(b)))
    ELSE IF a.negative THEN opSub(opNeg(b), opNeg(a))
    ELSE IF opLess(a, b) THEN opNeg(opSub(b, a))
    ELSE normalize([digits |-> borrowLoop(a.digits, b.digits, 0, 0, <<>>).digits,
                    negative |-> FALSE])

\* The operands with which the delegation between operator+ and operator-
\* arrives at a digit-wise loop: kind "add" (carry loop) or "sub" (borrow loop).
RECURSIVE addLeaf(_, _), subLeaf(_, _)
addLeaf(a, b) ==
    IF a.negative # b.negative
    THEN (IF a.negative THEN subLeaf(b, opNeg(a)) ELSE subLeaf(a, opNeg(b)))
    ELSE [kind |-> "add", left |-> a, right |-> b]

subLeaf(a, b) ==
    IF a.negative # b.negative
    THEN (IF a.negative THEN addLeaf(opNeg(a), b) ELSE addLeaf(a, opNeg(b)))
    ELSE IF a.negative THEN subLeaf(opNeg(b), opNeg(a))
    ELSE IF opLess(a, b) THEN subLeaf(b, a)
    ELSE [kind |-> "sub", left |-> a, right |-> b]

(***************************************************************************)
(* Multiplication                                                          *)
(***************************************************************************)

\* mulInner without "|| carry" in its test: the carry out of a row is dropped
RECURSIVE mulInnerDropCarry(_, _, _, _, _, _)
mulInnerDropCarry(buf, d1, d2, i, j, carry) ==
    IF j < Len(d2)
    THEN LET product == buf.digits[i + j + 1] + carry + d1[i + 1] * d2[j + 1]
         IN  mulInnerDropCarry([buf EXCEPT !.digits[i + j + 1] = product % 10],
                               d1, d2, i, j + 1, product \div 10)
    ELSE buf

\* for (j = 0; j < other.digits.size() || carry; ++j) of row i.  buf is
\* [digits, overflow]: overflow records a write at index i + j past the end
\* of the vector.
RECURSIVE mulInner(_, _, _, _, _, _)
mulInner(buf, d1, d2, i, j, carry) ==
    IF j < Len(d2) \/ carry # 0
    THEN IF i + j >= Len(buf.digits)
         THEN [digits |-> buf.digits, overflow |-> TRUE]
         ELSE LET product == buf.digits[i + j + 1] + carry
                             + (IF j < Len(d2) THEN d1[i + 1] * d2[j + 1] ELSE 0)
              IN  mulInner([buf EXCEPT !.digits[i + j + 1] = product % 10],
                           d1, d2, i, j + 1, product \div 10)
    ELSE buf

\* for (i = 0; i < digits.size(); ++i)
RECURSIVE mulOuter(_, _, _, _)
mulOuter(buf, d1, d2, i) ==
    IF i < Len(d1) /\ ~buf.overflow
    THEN mulOuter(mulInner(buf, d1, d2, i, 0, 0), d1, d2, i + 1)
    ELSE buf

\* the output buffer of schoolbookMultiply before normalize():
\* result.digits.resize(digits.size() + other.digits.size(), 0) and the loops
schoolbookBuffer(a, b) ==
    mulOuter([digits |-> [k \in 1..(Len(a.digits) + Len(b.digits)) |-> 0],
              overflow |-> FALSE],
             a.digits, b.digits, 0)

schoolbookMultiply(a, b) ==
    normalize([digits |-> schoolbookBuffer(a, b).digits, negative |-> FALSE])

\* operator*
opMul(a, b) ==
    IF isZero(a) \/ isZero(b)
    THEN ZERO
    ELSE normalize([digits |-> schoolbookMultiply(a, b).digits,
                    negative |-> a.negative # b.negative])

(***************************************************************************)
(* Division                                                                *)
(***************************************************************************)

\* while (remainder >= divisorAbs) { remainder = remainder - divisorAbs; digit++; }
RECURSIVE subtractWhile(_, _, _)
subtractWhile(remainder, divisorAbs, digit) ==
    IF opGreaterEq(remainder, divisorAbs)
    THEN subtractWhile(opSub(remainder, divisorAbs), divisorAbs, digit + 1)
    ELSE [remainder |-> remainder, digit |-> digit]

\* for (i = current.digits.size() - 1; i >= 0; --i).  v holds the loop's
\* variables: the C++ index i, quotient and remainder.
RECURSIVE divideLoop(_, _, _)
divideLoop(current, divisorAbs, v) ==
    IF v.i < 0
    THEN [first |-> normalize(v.quotient), second |-> v.remainder]
    ELSE LET r1 == normalize([digits |-> <<current.digits[v.i + 1]>>
                                         \o v.remainder.digits,
                              negative |-> v.remainder.negative])
             st == subtractWhile(r1, divisorAbs, 0)
         IN  divideLoop(current, divisorAbs,
                        [i |-> v.i - 1,
                         quotient |-> [digits |-> <<st.digit>> \o v.quotient.digits,
                                       negative |-> v.quotient.negative],
                         remainder |-> st.remainder])

divideWithRemainder(dividend, divisor) ==
    IF isZero(dividend)
    THEN [first |-> ZERO, second |-> ZERO]
    ELSE LET current == abs(dividend)
         IN  divideLoop(current, abs(divisor),
                        [i |-> Len(current.digits) - 1,
                         quotient |-> BigIntDefault,
                         remainder |-> BigIntDefault])

\* operator/ past its zero check: the quotient with its sign, normalized
divValue(a, b) ==
    normalize([digits |-> divideWithRemainder(a, b).first.digits,
               negative |-> a.negative # b.negative])

\* operator% past its zero check: the remainder with the dividend's sign
modValue(a, b) ==
    normalize([digits |-> divideWithRemainder(a, b).second.digits,
               negative |-> a.negative])

\* operator/ answering zero, instead of throwing, for a zero divisor
opDivNoThrow(a, b) ==
    IF isZero(b) THEN Return(ZERO) ELSE Return(divValue(a, b))

\* operator/
opDiv(a, b) ==
    IF isZero(b) THEN Raise("DivisionByZero") ELSE Return(divValue(a, b))

\* operator%
opMod(a, b) ==
    IF isZero(b) THEN Raise("DivisionByZero") ELSE Return(modValue(a, b))

(***************************************************************************)
(* Native integers.  long long is modelled with LLBits bits instead of 64  *)
(* (TLC's integers are 32 bits wide): LLONG_MIN = -2^(LLBits-1) and        *)
(* LLONG_MAX = 2^(LLBits-1) - 1, in two's complement.                      *)
(***************************************************************************)

LLBits == 8

LLONG_MAX == 2 ^ (LLBits - 1) - 1

LLONG_MIN == -(2 ^ (LLBits - 1))

LongLong == LLONG_MIN..LLONG_MAX

\* C++ integer division and remainder truncate toward zero
cDiv(a, b) == IF a >= 0 THEN a \div b ELSE -((-a) \div b)

cRem(a, b) == IF a >= 0 THEN a % b ELSE -((-a) % b)

\* while (num > 0) { digits.push_back(num % 10); num /= 10; }
RECURSIVE digitLoop(_, _)
digitLoop(num, acc) ==
    IF num > 0 THEN digitLoop(cDiv(num, 10), Append(acc, cRem(num, 10))) ELSE acc

\* the same loop in a build that has reduced num > 0 to num != 0, which holds
\* of every num the negation can yield without overflow
RECURSIVE digitLoopNonZero(_, _)
digitLoopNonZero(num, acc) ==
    IF num # 0
    THEN digitLoopNonZero(cDiv(num, 10), Append(acc, cRem(num, 10)))
    ELSE acc

\* BigInt::BigInt(long long) past the negation, num being the negated value
fromMagnitude(num, neg) ==
    IF num = 0
    THEN [digits |-> <<0>>, negative |-> neg]
    ELSE [digits |-> digitLoop(num, <<>>), negative |-> neg]

\* BigInt::BigInt(long long): the set of outcomes.  num = -num overflows for
\* LLONG_MIN, which is undefined: in a build that does not trap overflow the
\* negation wraps to LLONG_MIN and the loop test num > 0 is either kept (no
\* digit is pushed) or reduced to num != 0 (the digits pushed are negative).
BigIntLL(num) ==
    IF num >= 0 THEN {Return(fromMagnitude(num, FALSE))}
    ELSE IF num # LLONG_MIN THEN {Return(fromMagnitude(-num, TRUE))}
    ELSE {Return(fromMagnitude(LLONG_MIN, TRUE)),
          Return([digits |-> digitLoopNonZero(LLONG_MIN, <<>>), negative |-> TRUE])}

\* BigInt(long long) of a value whose negation cannot overflow
BigIntOf(num) == fromMagnitude(IF num < 0 THEN -num ELSE num, num < 0)

\* result = result * 10 + digits[i], from the most significant digit down
RECURSIVE reconstruct(_, _, _)
reconstruct(d, i, result) ==
    IF i < 0 THEN result ELSE reconstruct(d, i - 1, result * 10 + d[i + 1])

\* BigInt::toLongLong: the set of outcomes, one for each outcome of the
\* BigInt(LLONG_MIN) it builds for its range check
toLongLong(a) ==
    { IF m.err # "none" THEN m
      ELSE IF opGreater(a, BigIntOf(LLONG_MAX)) \/ opLess(a, m.val)
           THEN Raise("OutOfRange")
           ELSE LET result == reconstruct(a.digits, Len(a.digits) - 1, 0)
                IN  Return(IF a.negative THEN -result ELSE result)
      : m \in BigIntLL(LLONG_MIN) }

(***************************************************************************)
(* Text.  A string is the sequence of its character codes.                 *)
(***************************************************************************)

CharZero == 48

CharMinus == 45

CharPlus == 43

isdigit(c) == CharZero <= c /\ c <= CharZero + 9

\* for (size_t i = str.length() - 1; i >= start; --i).  i is unsigned: with
\* start = 0 the test i >= start cannot fail, --i wraps past 0 and str[i] is
\* read outside the string, which is undefined: the byte found there is not a
\* digit (InvalidInput), or the read faults, or it is a digit and the loop
\* reads on below the string to the same two ends.
RECURSIVE parseLoop(_, _, _, _)
parseLoop(str, start, i, acc) ==
    IF ~isdigit(str[i + 1]) THEN {Raise("InvalidInput")}
    ELSE LET d == Append(acc, str[i + 1] - CharZero)
         IN  IF i > start THEN parseLoop(str, start, i - 1, d)
             ELSE IF i >= 1 THEN {Return(d)}
             ELSE {Raise("InvalidInput"), Raise("fault")}

\* BigInt::BigInt(const std::string&): the set of outcomes
BigIntStr(str) ==
    IF Len(str) = 0 THEN {Raise("InvalidInput")}
    ELSE LET neg == str[1] = CharMinus
             start == IF str[1] = CharMinus \/ str[1] = CharPlus THEN 1 ELSE 0
         IN  IF start >= Len(str) THEN {Raise("InvalidInput")}
             ELSE { IF r.err # "none" THEN r
                    ELSE Return(normalize([digits |-> r.val, negative |-> neg]))
                    : r \in parseLoop(str, start, Len(str) - 1, <<>>) }

\* for (i = digits.size() - 1; i >= 0; --i) result += '0' + digits[i]
RECURSIVE digitChars(_, _, _)
digitChars(d, i, acc) ==
    IF i < 0 THEN acc ELSE digitChars(d, i - 1, Append(acc, CharZero + d[i + 1]))

\* BigInt::toString
toString(a) ==
    IF isZero(a) THEN <<CharZero>>
    ELSE digitChars(a.digits, Len(a.digits) - 1,
                    IF a.negative THEN <<CharMinus>> ELSE <<>>)

(***************************************************************************)
(* Number theory                                                           *)
(***************************************************************************)

\* while (left <= right) of sqrt
RECURSIVE sqrtLoop(_, _, _, _)
sqrtLoop(nn, left, right, result) ==
    IF opLessEq(left, right)
    THEN LET mid == divValue(opAdd(left, right), TWO)
             square == opMul(mid, mid)
         IN  IF opLessEq(square, nn)
             THEN sqrtLoop(nn, opAdd(mid, ONE), right, mid)
             ELSE sqrtLoop(nn, left, opSub(mid, ONE), result)
    ELSE result

\* BigInt::sqrt past its sign check
sqrtValue(nn) ==
    IF opLessEq(nn, ONE) THEN nn ELSE sqrtLoop(nn, ONE, nn, ONE)

\* BigInt::sqrt
sqrt(nn) ==
    IF opLess(nn, ZERO) THEN Raise("InvalidInput") ELSE Return(sqrtValue(nn))

\* while (!e.isZero()) of pow.  v holds the loop's variables result, b, e.
RECURSIVE powLoop(_)
powLoop(v) ==
    IF ~isZero(v.e)
    THEN powLoop([result |-> IF opEq(modValue(v.e, TWO), ONE)
                             THEN opMul(v.result, v.b) ELSE v.result,
                  b |-> opMul(v.b, v.b),
                  e |-> divValue(v.e, TWO)])
    ELSE v.result

\* BigInt::pow
pow(base, exponent) ==
    IF opLess(exponent, ZERO) THEN Raise("InvalidInput")
    ELSE IF isZero(exponent) THEN Return(ONE)
    ELSE Return(powLoop([result |-> ONE, b |-> base, e |-> exponent]))

\* while (!e.isZero()) of modPow.  v holds the loop's variables result, b, e.
RECURSIVE modPowLoop(_, _)
modPowLoop(v, modulus) ==
    IF ~isZero(v.e)
    THEN modPowLoop([result |-> IF opEq(modValue(v.e, TWO), ONE)
                                THEN modValue(opMul(v.result, v.b), modulus)
                                ELSE v.result,
                     b |-> modValue(opMul(v.b, v.b), modulus),
                     e |-> divValue(v.e, TWO)],
                    modulus)
    ELSE v.result

\* BigInt::modPow
modPow(base, exponent, modulus) ==
    IF opLessEq(modulus, ZERO) THEN Raise("InvalidInput")
    ELSE IF opLess(exponent, ZERO) THEN Raise("InvalidInput")
    ELSE Return(modPowLoop([result |-> ONE, b |-> modValue(base, modulus),
                            e |-> exponent], modulus))

\* while (!y.isZero()) { temp = y; y = x % y; x = temp; } of gcd.  v holds
\* the loop's variables x and y.
RECURSIVE gcdLoop(_)
gcdLoop(v) ==
    IF ~isZero(v.y)
    THEN gcdLoop([x |-> v.y, y |-> modValue(v.x, v.y)])
    ELSE v.x

\* BigInt::gcd
gcd(a, b) == gcdLoop([x |-> abs(a), y |-> abs(b)])

\* BigInt::lcm
lcm(a, b) ==
    IF isZero(a) \/ isZero(b)
    THEN Return(ZERO)
    ELSE opDiv(abs(opMul(a, b)), gcd(a, b))

\* the default of isPrimeMillerRabin's parameter iterations
Iterations == 5

\* num <= BigInt(100): the range of the trial division
TrialLimit == 100

\* std::uniform_int_distribution<> dis(2, 100)
WitnessLow == 2

WitnessHigh == 100

\* trialLoop with the test i * i < num: a divisor equal to the root is not tried
RECURSIVE trialLoopStrictBound(_, _)
trialLoopStrictBound(num, i) ==
    IF opLess(opMul(i, i), num)
    THEN IF opEq(modValue(num, i), ZERO)
         THEN FALSE
         ELSE trialLoopStrictBound(num, opAdd(i, ONE))
    ELSE TRUE

\* for (BigInt i = TWO; i * i <= num; i = i + ONE) of isPrimeMillerRabin
RECURSIVE trialLoop(_, _)
trialLoop(num, i) ==
    IF opLessEq(opMul(i, i), num)
    THEN IF opEq(modValue(num, i), ZERO)
         THEN FALSE
         ELSE trialLoop(num, opAdd(i, ONE))
    ELSE TRUE

\* for (int i = 0; i < iterations; ++i) of isPrimeMillerRabin: the set of
\* outcomes over the witnesses dis(gen) can draw.  An outcome is the answer
\* and the witness that rejected, 0 when none did.
RECURSIVE witnessLoop(_, _, _)
witnessLoop(num, i, iterations) ==
    IF i < iterations
    THEN LET rest == witnessLoop(num, i + 1, iterations)
         IN  UNION { IF opNotEq(gcd(BigIntOf(a), num), ONE)
                     THEN {[result |-> FALSE, witness |-> a]}
                     ELSE rest
                     : a \in WitnessLow..WitnessHigh }
    ELSE {[result |-> TRUE, witness |-> 0]}

\* BigInt::isPrimeMillerRabin: the set of outcomes
isPrimeMillerRabin(nn, iterations) ==
    LET num == abs(nn)
    IN  IF opLessEq(num, BigIntOf(TrialLimit))
        THEN {[result |-> trialLoop(num, TWO), witness |-> 0]}
        ELSE witnessLoop(num, 0, iterations)

\* BigInt::isPrime: the set of outcomes
isPrime(nn) ==
    IF opLessEq(nn, ONE) THEN {[result |-> FALSE, witness |-> 0]}
    ELSE IF opEq(nn, TWO) THEN {[result |-> TRUE, witness |-> 0]}
    ELSE IF opEq(modValue(nn, TWO), ZERO) THEN {[result |-> FALSE, witness |-> 0]}
    ELSE isPrimeMillerRabin(nn, Iterations)

\* while (num % d == ZERO) { num = num / d; count++; }
RECURSIVE divideOut(_, _, _)
divideOut(num, d, count) ==
    IF opEq(modValue(num, d), ZERO)
    THEN divideOut(divValue(num, d), d, count + 1)
    ELSE [num |-> num, count |-> count]

\* oddLoop with the test i < sqrtNum: the bound itself is not tried
RECURSIVE oddLoopStrictBound(_, _, _, _)
oddLoopStrictBound(num, i, sqrtNum, factors) ==
    IF opLess(i, sqrtNum)
    THEN LET r == divideOut(num, i, 0)
             next == opAdd(i, TWO)
         IN  IF r.count > 0
             THEN oddLoopStrictBound(r.num, next, sqrtNum,
                      Append(factors, [first |-> i, second |-> r.count]))
             ELSE oddLoopStrictBound(r.num, next, sqrtNum, factors)
    ELSE IF opGreater(num, ONE)
         THEN Append(factors, [first |-> num, second |-> 1])
         ELSE factors

\* while (i <= sqrtNum) of primeFactorization; sqrtNum is not recomputed
RECURSIVE oddLoop(_, _, _, _)
oddLoop(num, i, sqrtNum, factors) ==
    IF opLessEq(i, sqrtNum)
    THEN LET r == divideOut(num, i, 0)
             next == opAdd(i, TWO)
         IN  IF r.count > 0
             THEN oddLoop(r.num, next, sqrtNum,
                      Append(factors, [first |-> i, second |-> r.count]))
             ELSE oddLoop(r.num, next, sqrtNum, factors)
    ELSE IF opGreater(num, ONE)
         THEN Append(factors, [first |-> num, second |-> 1])
         ELSE factors

\* BigInt::primeFactorization
primeFactorization(nn) ==
    LET num == abs(nn)
    IN  IF opLessEq(num, ONE) THEN <<>>
        ELSE LET r == divideOut(num, TWO, 0)
                 i == BigIntOf(3)
                 sqrtNum == sqrtValue(r.num)
             IN  IF r.count > 0
                 THEN oddLoop(r.num, i, sqrtNum, <<[first |-> TWO, second |-> r.count]>>)
                 ELSE oddLoop(r.num, i, sqrtNum, <<>>)

(***************************************************************************)
(* What a BigInt denotes, and the canonical form of the data model         *)
(***************************************************************************)

\* the magnitude denoted by a digit sequence: sum of d[i] * 10^(i-1)
RECURSIVE Magnitude(_)
Magnitude(d) == IF Len(d) = 0 THEN 0 ELSE d[1] + 10 * Magnitude(Tail(d))

\* the integer a BigInt denotes
Val(a) == IF a.negative THEN -Magnitude(a.digits) ELSE Magnitude(a.digits)

\* the decimal digits of a natural number, least significant first
RECURSIVE DigitsOf(_)
DigitsOf(m) == IF m < 10 THEN <<m>> ELSE <<m % 10>> \o DigitsOf(m \div 10)

\* the canonical BigInt denoting the integer v
Canon(v) == [digits |-> DigitsOf(IF v < 0 THEN -v ELSE v), negative |-> v < 0]

\* the negative zero that unary minus makes of zero
NegZero == [digits |-> <<0>>, negative |-> TRUE]

\* digits non-empty, each in 0..9, no most-significant zero unless digits is
\* <<0>>, and zero never negative
Canonical(a) ==
    /\ Len(a.digits) >= 1
    /\ \A k \in 1..Len(a.digits) : a.digits[k] \in 0..9
    /\ (Len(a.digits) > 1 => a.digits[Len(a.digits)] # 0)
    /\ (a.digits = <<0>> => ~a.negative)

AbsInt(v) == IF v < 0 THEN -v ELSE v

(***************************************************************************)
(* Spec: a program holding two BigInt objects x and y and applying the     *)
(* public operations to them in any order.  op names the last operation,   *)
(* out is what the last value-returning operation returned, err the        *)
(* failure the last operation signalled.  Values are kept within MaxMag    *)
(* in magnitude so that the state space is finite.                         *)
(***************************************************************************)

MaxMag == 12

MaxNative == 12

MaxTextLen == 3

MaxRegTextLen == 2

\* '-', '+', '0', '1', '9' and 'a'
TextChars == {CharMinus, CharPlus, CharZero, CharZero + 1, CharZero + 9, 97}

RECURSIVE TextsOfLen(_)
TextsOfLen(k) ==
    IF k = 0 THEN {<<>>}
    ELSE {Append(t, c) : t \in TextsOfLen(k - 1), c \in TextChars}

TextsUpTo(k) == UNION {TextsOfLen(j) : j \in 0..k}

Fits(a) == Len(a.digits) <= 3 /\ AbsInt(Val(a)) <= MaxMag

Init == /\ x = ZERO
        /\ y = ZERO
        /\ z = ZERO
        /\ n = 0
        /\ s = <<>>
        /\ op = "init"
        /\ out = Return(ZERO)
        /\ err = "none"

\* x = r: r is what the right-hand side yields.  When it throws, the
\* assignment is not reached and x is left as it was; otherwise the
\* assignment returns *this.
Assign(name, r) ==
    /\ (r.err = "none" => Fits(r.val))
    /\ x' = IF r.err = "none" THEN r.val ELSE x
    /\ op' = name
    /\ out' = r
    /\ err' = r.err
    /\ UNCHANGED <<y, z, n, s>>

\* x = BigInt(str)
ConstructText ==
    \E str \in TextsUpTo(MaxRegTextLen) : \E r \in BigIntStr(str) :
        Assign("text", r)

\* x = BigInt(v)
ConstructNative ==
    \E v \in (-MaxNative)..MaxNative : \E r \in BigIntLL(v) :
        Assign("native", r)

\* y = x (copy assignment)
CopyAssign ==
    /\ y' = x
    /\ op' = "copy"
    /\ out' = Return(x)
    /\ err' = "none"
    /\ UNCHANGED <<x, z, n, s>>

\* y = std::move(x): the moved-from object is left as {0}, non-negative
MoveAssign ==
    /\ y' = x
    /\ x' = [digits |-> <<0>>, negative |-> FALSE]
    /\ op' = "move"
    /\ out' = Return(x)
    /\ err' = "none"
    /\ UNCHANGED <<z, n, s>>

\* x.clear()
Clear == Assign("clear", Return(clear(x)))

\* x = -x, x = +x, x = abs(x), x = min(x, y), x = max(x, y)
Negate == Assign("neg", Return(opNeg(x)))

UnaryPlus == Assign("plus", Return(opPlus(x)))

Abs == Assign("abs", Return(abs(x)))

MinMax == Assign("min", Return(min(x, y))) \/ Assign("max", Return(max(x, y)))

\* x += y, x -= y, x *= y: *this = *this op other
AddAssign == Assign("addAssign", Return(opAdd(x, y)))

SubAssign == Assign("subAssign", Return(opSub(x, y)))

MulAssign == Assign("mulAssign", Return(opMul(x, y)))

\* ++x, --x
Increment == Assign("inc", Return(opAdd(x, ONE)))

Decrement == Assign("dec", Return(opSub(x, ONE)))

\* x /= y, x %= y, x ^= y
DivAssign == Assign("divAssign", opDiv(x, y))

ModAssign == Assign("modAssign", opMod(x, y))

PowAssign == Assign("powAssign", pow(x, y))

\* an expression over x and y: out is what it yields
Evaluate(name, r) ==
    /\ op' = name
    /\ out' = r
    /\ err' = r.err
    /\ UNCHANGED <<x, y, z, n, s>>

\* x / y, x % y, y / x, y % x
Divide == Evaluate("div", opDiv(x, y)) \/ Evaluate("divBy", opDiv(y, x))

Modulo == Evaluate("mod", opMod(x, y)) \/ Evaluate("modBy", opMod(y, x))

Next ==
    \/ ConstructText \/ ConstructNative \/ CopyAssign \/ MoveAssign
    \/ Clear \/ Negate \/ UnaryPlus \/ Abs \/ MinMax
    \/ AddAssign \/ SubAssign \/ MulAssign \/ Increment \/ Decrement
    \/ DivAssign \/ ModAssign \/ PowAssign \/ Divide \/ Modulo

Spec == Init /\ [][Next]_vars

\* C1: every value the program holds is canonical: digits non-empty, each in
\* 0..9, no most-significant zero digit unless digits is <<0>>, and zero is
\* never negative.
C1_AllCanonical ==
    /\ Canonical(x)
    /\ Canonical(y)
    /\ (out.err = "none" => Canonical(out.val))

\* C6: a division or modulus by zero signals DivisionByZero and yields no
\* value, whatever the dividend; the compound forms leave x as it was.
C6_DivisionByZero ==
    [][ /\ (isZero(y) /\ op' \in {"div", "mod", "divAssign", "modAssign"}
               => out' = Raise("DivisionByZero") /\ err' = "DivisionByZero"
                  /\ x' = x /\ y' = y)
        /\ (isZero(x) /\ op' \in {"divBy", "modBy"}
               => out' = Raise("DivisionByZero") /\ err' = "DivisionByZero"
                  /\ x' = x /\ y' = y) ]_vars

\* a negative x has been divided in place by a zero y
C6_Witness ==
    /\ op \in {"divAssign", "modAssign"}
    /\ isZero(y)
    /\ isNegative(x)
    /\ err = "DivisionByZero"

(***************************************************************************)
(* SpecAddSub: operator+ and operator- applied to canonical operands.      *)
(* Init draws x and y; each action evaluates one expression into out.      *)
(***************************************************************************)

MaxAddend == 105

MaxThird == 3

CanonUpTo(m) == {Canon(v) : v \in (-m)..m}

InitAddSub ==
    /\ x \in CanonUpTo(MaxAddend)
    /\ y \in CanonUpTo(MaxAddend)
    /\ z = ZERO
    /\ n = 0
    /\ s = <<>>
    /\ op = "init"
    /\ out = Return(ZERO)
    /\ err = "none"

\* one expression over the inputs drawn by Init is evaluated: out is what it
\* yields
Apply(name, r) ==
    /\ op = "init"
    /\ op' = name
    /\ out' = r
    /\ err' = r.err
    /\ UNCHANGED <<x, y, z, n, s>>

\* x + y
DoAdd == Apply("add", Return(opAdd(x, y)))

\* x - y
DoSub == Apply("sub", Return(opSub(x, y)))

\* (x + y) - y
DoAddThenSub == Apply("addsub", Return(opSub(opAdd(x, y), y)))

\* (x + y) + c and x + (y + c)
DoAssociate ==
    \E c \in CanonUpTo(MaxThird) :
        Apply("assoc", [err |-> "none",
                        left |-> opAdd(opAdd(x, y), c),
                        right |-> opAdd(x, opAdd(y, c))])

\* the digit-wise loops that x + y and x - y arrive at
DoDelegate ==
    Apply("leaf", [err |-> "none", add |-> addLeaf(x, y), sub |-> subLeaf(x, y)])

NextAddSub == DoAdd \/ DoSub \/ DoAddThenSub \/ DoAssociate \/ DoDelegate

SpecAddSub == InitAddSub /\ [][NextAddSub]_vars

\* a digit-wise loop is entered with operands of one sign, and the borrow
\* loop with a left magnitude not below the right one, so no borrow is left
LeafOk(l) ==
    /\ l.left.negative = l.right.negative
    /\ (l.kind = "sub" =>
          /\ compareMagnitude(l.left, l.right) >= 0
          /\ borrowLoop(l.left.digits, l.right.digits, 0, 0, <<>>).borrow = 0)

\* C3: for canonical x and y, x + y and x - y are the canonical
\* representations of the sum and the difference; (x + y) - y == x,
\* x + y == y + x and (x + y) + c == x + (y + c) under operator==; the
\* delegation between operator+ and operator- ends in a same-sign digit-wise
\* loop, with left magnitude >= right magnitude when it borrows.
C3_AddSubExact ==
    /\ (op = "add" => /\ Canonical(out.val)
                      /\ Val(out.val) = Val(x) + Val(y)
                      /\ opEq(out.val, opAdd(y, x)))
    /\ (op = "sub" => /\ Canonical(out.val)
                      /\ Val(out.val) = Val(x) - Val(y))
    /\ (op = "addsub" => opEq(out.val, x))
    /\ (op = "assoc" => opEq(out.left, out.right))
    /\ (op = "leaf" => LeafOk(out.add) /\ LeafOk(out.sub))

\* operands of different signs and lengths have been added, the sum having
\* fewer digits than the longer operand
C3_Witness ==
    /\ op = "add"
    /\ x.negative /\ ~y.negative
    /\ Len(x.digits) = 2 /\ Len(y.digits) = 2
    /\ Len(out.val.digits) = 1
    /\ out.val.negative

(***************************************************************************)
(* SpecMul: operator* applied to any two values, the negative zero that    *)
(* unary minus makes included.                                             *)
(***************************************************************************)

MaxFactor == 105

ValuesUpTo(m) == CanonUpTo(m) \cup {NegZero}

InitMul ==
    /\ x \in ValuesUpTo(MaxFactor)
    /\ y \in ValuesUpTo(MaxFactor)
    /\ z = ZERO
    /\ n = 0
    /\ s = <<>>
    /\ op = "init"
    /\ out = Return(ZERO)
    /\ err = "none"

\* x * y
DoMul == Apply("mul", Return(opMul(x, y)))

\* the output buffer of the schoolbook multiplication of x by y
DoSchoolbook ==
    Apply("buffer", [err |-> "none", val |-> schoolbookBuffer(x, y)])

NextMul == DoMul \/ DoSchoolbook

SpecMul == InitMul /\ [][NextMul]_vars

\* C4: x * y is the canonical representation of the product, canonical zero
\* when an operand is zero, negative iff exactly one operand is negative
\* otherwise; it equals y * x under operator==; every digit of the output
\* buffer of size len(x) + len(y) is in 0..9 and the buffer holds the whole
\* product of the magnitudes (no carry goes past its end).
C4_MulExact ==
    /\ (op = "mul" =>
          /\ Canonical(out.val)
          /\ Val(out.val) = Val(x) * Val(y)
          /\ (isZero(x) \/ isZero(y) => out.val = ZERO)
          /\ (~isZero(x) /\ ~isZero(y) =>
                out.val.negative = (x.negative # y.negative))
          /\ opEq(out.val, opMul(y, x)))
    /\ (op = "buffer" =>
          /\ ~out.val.overflow
          /\ Len(out.val.digits) = Len(x.digits) + Len(y.digits)
          /\ \A k \in 1..Len(out.val.digits) : out.val.digits[k] \in 0..9
          /\ Magnitude(out.val.digits) = Magnitude(x.digits) * Magnitude(y.digits))

\* two two-digit operands of different signs have been multiplied into a
\* four-digit negative product
C4_Witness ==
    /\ op = "mul"
    /\ Len(x.digits) = 2 /\ Len(y.digits) = 2
    /\ x.negative /\ ~y.negative
    /\ Len(out.val.digits) = 4
    /\ out.val.negative

(***************************************************************************)
(* SpecDiv: operator/ and operator% applied to any two values.             *)
(***************************************************************************)

MaxDividend == 210

MaxDivisor == 25

InitDiv ==
    /\ x \in ValuesUpTo(MaxDividend)
    /\ y \in ValuesUpTo(MaxDivisor)
    /\ z = ZERO
    /\ n = 0
    /\ s = <<>>
    /\ op = "init"
    /\ out = Return(ZERO)
    /\ err = "none"

\* x / y
DoDiv == Apply("div", opDiv(x, y))

\* x % y
DoMod == Apply("mod", opMod(x, y))

\* (x / y) * y + (x % y)
DoRecompose ==
    /\ ~isZero(y)
    /\ Apply("recompose", Return(opAdd(opMul(divValue(x, y), y), modValue(x, y))))

NextDiv == DoDiv \/ DoMod \/ DoRecompose

SpecDiv == InitDiv /\ [][NextDiv]_vars

\* the quotient of a by b truncated toward zero, and its remainder
TruncQuot(a, b) ==
    IF (a < 0) = (b < 0) THEN AbsInt(a) \div AbsInt(b)
    ELSE -(AbsInt(a) \div AbsInt(b))

TruncRem(a, b) ==
    IF a < 0 THEN -(AbsInt(a) % AbsInt(b)) ELSE AbsInt(a) % AbsInt(b)

\* what the claim says of q = x / y and r = x % y, without the identity
DivModExact ==
    /\ (op = "div" /\ ~isZero(y) =>
          /\ out.err = "none"
          /\ Canonical(out.val)
          /\ Val(out.val) = TruncQuot(Val(x), Val(y))
          /\ (out.val.negative <=> (x.negative # y.negative) /\ ~isZero(out.val)))
    /\ (op = "mod" /\ ~isZero(y) =>
          /\ out.err = "none"
          /\ Canonical(out.val)
          /\ Val(out.val) = TruncRem(Val(x), Val(y))
          /\ AbsInt(Val(out.val)) < AbsInt(Val(y))
          /\ (isZero(out.val) \/ out.val.negative = x.negative))

\* C2: for every x and every non-zero y, x / y is the quotient truncated
\* toward zero (negative iff the signs differ and it is not zero), x % y is
\* zero or has the sign of x, with |x % y| < |y|, and
\* (x / y) * y + (x % y) == x under operator==.
C2_TruncatingDivision ==
    /\ DivModExact
    /\ (op = "recompose" => opEq(out.val, x))

\* the same with the identity read on the values denoted
C2_OnValues ==
    /\ DivModExact
    /\ (op = "recompose" => Canonical(out.val) /\ Val(out.val) = Val(x))

(***************************************************************************)
(* SpecText: a BigInt is constructed from a string and formatted back.     *)
(***************************************************************************)

InitText ==
    /\ x = ZERO
    /\ y = ZERO
    /\ z = ZERO
    /\ n = 0
    /\ s \in TextsUpTo(MaxTextLen)
    /\ op = "init"
    /\ out = Return(ZERO)
    /\ err = "none"

\* BigInt(s)
DoParse == \E r \in BigIntStr(s) : Apply("parse", r)

\* BigInt(s).toString()
DoParseFormat ==
    \E r \in BigIntStr(s) :
        Apply("roundtrip",
              IF r.err = "none" THEN Return(toString(r.val)) ELSE r)

NextText == DoParse \/ DoParseFormat

SpecText == InitText /\ [][NextText]_vars

\* a canonically formatted decimal string: an optional '-', then digits with
\* no leading zero, and never "-0"
CanonicalText(str) ==
    LET neg == Len(str) >= 1 /\ str[1] = CharMinus
        body == IF neg THEN Tail(str) ELSE str
    IN  /\ Len(body) >= 1
        /\ \A k \in 1..Len(body) : isdigit(body[k])
        /\ (Len(body) > 1 => body[1] # CharZero)
        /\ (neg => body # <<CharZero>>)

\* C5: constructing a BigInt from a canonically formatted decimal string,
\* signed or unsigned, succeeds, and toString() of it is the string.
C5_TextRoundTrip ==
    CanonicalText(s) =>
        /\ (op = "parse" => out.err = "none" /\ Canonical(out.val))
        /\ (op = "roundtrip" => out = Return(s))

\* the same for the strings that carry a sign character
C5_SignedRoundTrip ==
    CanonicalText(s) /\ s[1] = CharMinus =>
        /\ (op = "parse" => out.err = "none" /\ Canonical(out.val))
        /\ (op = "roundtrip" => out = Return(s))

(***************************************************************************)
(* SpecNative: n is an integer and x the canonical BigInt denoting it;      *)
(* BigInt(n) is constructed when n is a long long, and x.toLongLong()      *)
(* evaluated.                                                              *)
(***************************************************************************)

Margin == 30

InitNative ==
    /\ n \in (LLONG_MIN - Margin)..(LLONG_MAX + Margin)
    /\ x \in {Canon(n)} \cup (IF n = 0 THEN {NegZero} ELSE {})
    /\ y = ZERO
    /\ z = ZERO
    /\ s = <<>>
    /\ op = "init"
    /\ out = Return(ZERO)
    /\ err = "none"

\* BigInt(n), with its text
DoConstruct ==
    /\ n \in LongLong
    /\ \E r \in BigIntLL(n) :
          Apply("construct",
                IF r.err = "none"
                THEN [err |-> "none", val |-> r.val, text |-> toString(r.val)]
                ELSE r)

\* x.toLongLong()
DoToLongLong == \E r \in toLongLong(x) : Apply("toLongLong", r)

\* BigInt(n).toLongLong()
DoNativeRoundTrip ==
    /\ n \in LongLong
    /\ \E c \in BigIntLL(n) :
          IF c.err = "none"
          THEN \E r \in toLongLong(c.val) : Apply("nativeRoundTrip", r)
          ELSE Apply("nativeRoundTrip", c)

NextNative == DoConstruct \/ DoToLongLong \/ DoNativeRoundTrip

SpecNative == InitNative /\ [][NextNative]_vars

\* the decimal text of an integer
TextOf(v) ==
    LET d == DigitsOf(AbsInt(v))
    IN  (IF v < 0 THEN <<CharMinus>> ELSE <<>>)
        \o [k \in 1..Len(d) |-> CharZero + d[Len(d) + 1 - k]]

\* C7: for every long long n, LLONG_MIN included, BigInt(n) is the canonical
\* value denoting n and its toString() is the decimal text of n.
C7_NativeConstruction ==
    op = "construct" =>
        /\ out.err = "none"
        /\ out.val = Canon(n)
        /\ out.text = TextOf(n)

\* C8: toLongLong() fails with OutOfRange exactly when the value is outside
\* LLONG_MIN..LLONG_MAX and returns the value otherwise;
\* BigInt(n).toLongLong() == n for every long long n.
C8_ToLongLong ==
    /\ (op = "toLongLong" =>
          out = IF n \in LongLong THEN Return(n) ELSE Raise("OutOfRange"))
    /\ (op = "nativeRoundTrip" => out = Return(n))

\* the same for the values that are not negative
C8_NonNegative ==
    ~x.negative =>
        /\ (op = "toLongLong" =>
              out = IF n \in LongLong THEN Return(n) ELSE Raise("OutOfRange"))
        /\ (op = "nativeRoundTrip" => out = Return(n))

(***************************************************************************)
(* SpecFactor: primeFactorization applied to any value.                    *)
(***************************************************************************)

MaxFactored == 300

InitFactor ==
    /\ x \in ValuesUpTo(MaxFactored)
    /\ y = ZERO
    /\ z = ZERO
    /\ n = 0
    /\ s = <<>>
    /\ op = "init"
    /\ out = Return(ZERO)
    /\ err = "none"

\* primeFactorization(x)
DoFactorize == Apply("factorize", Return(primeFactorization(x)))

\* sqrt(|x|), the bound of the trial division when x is odd
DoSqrt == Apply("sqrt", sqrt(abs(x)))

NextFactor == DoFactorize \/ DoSqrt

SpecFactor == InitFactor /\ [][NextFactor]_vars

IsPrimeInt(p) == p > 1 /\ \A d \in 2..(p - 1) : p % d # 0

RECURSIVE IntPow(_, _)
IntPow(b, e) == IF e = 0 THEN 1 ELSE b * IntPow(b, e - 1)

\* the product of p^k over the entries of a factor list
RECURSIVE ProductOf(_)
ProductOf(f) ==
    IF Len(f) = 0 THEN 1
    ELSE IntPow(Val(f[1].first), f[1].second) * ProductOf(Tail(f))

\* C9: for |x| > 1 the entries (p, k) of primeFactorization(x) have p prime
\* (the final cofactor included), k >= 1, the p strictly ascending, and the
\* product of the p^k is |x|; for |x| <= 1 the list is empty.
C9_Factorization ==
    op = "factorize" =>
        LET f == out.val
        IN  /\ (AbsInt(Val(x)) <= 1 <=> Len(f) = 0)
            /\ \A k \in 1..Len(f) :
                  /\ Canonical(f[k].first)
                  /\ IsPrimeInt(Val(f[k].first))
                  /\ f[k].second >= 1
            /\ \A k \in 1..(Len(f) - 1) : Val(f[k].first) < Val(f[k + 1].first)
            /\ (AbsInt(Val(x)) > 1 => ProductOf(f) = AbsInt(Val(x)))

\* a factorization with a factor 2, an odd factor found by trial division
\* that made the cofactor shrink below the bound, and a final cofactor
C9_Witness ==
    /\ op = "factorize"
    /\ x.negative
    /\ Len(out.val) = 3
    /\ out.val[1].first = TWO
    /\ out.val[2].second >= 2
    /\ opLess(out.val[3].first, sqrtValue(divideOut(abs(x), TWO, 0).num))

(***************************************************************************)
(* SpecModPow: modPow(x, y, z) beside pow(x, y) % z.                        *)
(***************************************************************************)

MaxBase == 10

MaxExponent == 6

MaxModulus == 12

InitModPow ==
    /\ x \in ValuesUpTo(MaxBase)
    /\ y \in {Canon(v) : v \in (-1)..MaxExponent}
    /\ z \in {Canon(v) : v \in (-1)..MaxModulus}
    /\ n = 0
    /\ s = <<>>
    /\ op = "init"
    /\ out = Return(ZERO)
    /\ err = "none"

\* modPow(x, y, z)
DoModPow == Apply("modPow", modPow(x, y, z))

\* pow(x, y)
DoPow == Apply("pow", pow(x, y))

\* pow(x, y) % z
DoPowMod ==
    Apply("powMod",
          LET p == pow(x, y) IN IF p.err = "none" THEN opMod(p.val, z) ELSE p)

NextModPow == DoModPow \/ DoPow \/ DoPowMod

SpecModPow == InitModPow /\ [][NextModPow]_vars

\* C10: modPow(x, y, z) fails with InvalidInput when z <= 0 or y < 0 and
\* otherwise equals pow(x, y) % z, pow(x, y) being the exact power x^y;
\* y = 0 and z = 1 included.
C10_ModPow ==
    /\ (op = "pow" /\ Val(y) >= 0 =>
          out.err = "none" /\ Val(out.val) = IntPow(Val(x), Val(y)))
    /\ (op = "modPow" =>
          IF Val(z) <= 0 \/ Val(y) < 0
          THEN out = Raise("InvalidInput")
          ELSE out = opMod(pow(x, y).val, z))

\* the same without the case of exponent 0 and modulus 1
C10_ExceptTrivialModulus ==
    /\ (op = "pow" /\ Val(y) >= 0 =>
          out.err = "none" /\ Val(out.val) = IntPow(Val(x), Val(y)))
    /\ (op = "modPow" /\ ~(Val(y) = 0 /\ Val(z) = 1) =>
          IF Val(z) <= 0 \/ Val(y) < 0
          THEN out = Raise("InvalidInput")
          ELSE out = opMod(pow(x, y).val, z))

(***************************************************************************)
(* SpecSqrt: sqrt applied to x and to x + 1.                                *)
(***************************************************************************)

MaxRadicand == 200

InitSqrt ==
    /\ x \in ValuesUpTo(MaxRadicand)
    /\ y = ZERO
    /\ z = ZERO
    /\ n = 0
    /\ s = <<>>
    /\ op = "init"
    /\ out = Return(ZERO)
    /\ err = "none"

\* sqrt(x)
DoRoot == Apply("root", sqrt(x))

\* sqrt(x + 1)
DoRootNext == Apply("rootNext", sqrt(opAdd(x, ONE)))

NextSqrt == DoRoot \/ DoRootNext

SpecSqrt == InitSqrt /\ [][NextSqrt]_vars

\* out is the floor square root of the integer v, or InvalidInput for v < 0
FloorRootOf(v) ==
    IF v < 0
    THEN out = Raise("InvalidInput")
    ELSE /\ out.err = "none"
         /\ Val(out.val) >= 0
         /\ Val(out.val) * Val(out.val) <= v
         /\ v < (Val(out.val) + 1) * (Val(out.val) + 1)

\* C11: for every n >= 0, r = sqrt(n) is the floor root: r >= 0 and
\* r*r <= n < (r+1)*(r+1); the search ends with that answer; for every
\* n < 0, sqrt(n) fails with InvalidInput.
C11_FloorRoot ==
    /\ (op = "root" => FloorRootOf(Val(x)))
    /\ (op = "rootNext" => FloorRootOf(Val(x) + 1))

\* the same for every argument other than the negative zero
C11_ExceptNegativeZero ==
    /\ (op = "root" /\ x # NegZero => FloorRootOf(Val(x)))
    /\ (op = "rootNext" => FloorRootOf(Val(x) + 1))

(***************************************************************************)
(* SpecGcd: gcd and lcm of x and y, in both orders, and their product.     *)
(***************************************************************************)

MaxGcdArg == 50

InitGcd ==
    /\ x \in ValuesUpTo(MaxGcdArg)
    /\ y \in ValuesUpTo(MaxGcdArg)
    /\ z = ZERO
    /\ n = 0
    /\ s = <<>>
    /\ op = "init"
    /\ out = Return(ZERO)
    /\ err = "none"

\* gcd(x, y)
DoGcd == Apply("gcd", Return(gcd(x, y)))

\* gcd(y, x)
DoGcdSwapped == Apply("gcdSwapped", Return(gcd(y, x)))

\* lcm(x, y)
DoLcm == Apply("lcm", lcm(x, y))

\* gcd(x, y) * lcm(x, y)
DoGcdTimesLcm ==
    Apply("gcdTimesLcm",
          LET l == lcm(x, y)
          IN  IF l.err = "none" THEN Return(opMul(gcd(x, y), l.val)) ELSE l)

NextGcd == DoGcd \/ DoGcdSwapped \/ DoLcm \/ DoGcdTimesLcm

SpecGcd == InitGcd /\ [][NextGcd]_vars

\* the greatest common divisor of the naturals a and b, 0 for a = b = 0
GcdInt(a, b) ==
    IF a = 0 /\ b = 0 THEN 0
    ELSE CHOOSE d \in 1..Max(a, b) :
            /\ a % d = 0 /\ b % d = 0
            /\ \A e \in (d + 1)..Max(a, b) : ~(a % e = 0 /\ b % e = 0)

\* the least common multiple of the positive naturals a and b
LcmInt(a, b) ==
    LET common == {m \in {a * k : k \in 1..b} : m % b = 0}
    IN  CHOOSE m \in common : \A k \in common : m <= k

\* what the claim says of gcd and lcm at the arguments a and b
GcdLcmOk(a, b) ==
    /\ (op = "gcd" =>
          out = Return(Canon(GcdInt(AbsInt(Val(a)), AbsInt(Val(b))))))
    /\ (op = "gcdSwapped" => out.err = "none" /\ opEq(out.val, gcd(a, b)))
    /\ (op = "lcm" =>
          out = Return(IF Val(a) = 0 \/ Val(b) = 0 THEN ZERO
                       ELSE Canon(LcmInt(AbsInt(Val(a)), AbsInt(Val(b))))))
    /\ (op = "gcdTimesLcm" =>
          out.err = "none" /\ opEq(out.val, abs(opMul(a, b))))

\* C13: for all a, b of any signs gcd(a, b) ends and is the non-negative
\* greatest common divisor of |a| and |b| (gcd(a, 0) = gcd(0, a) = |a|,
\* gcd(0, 0) = 0, gcd(a, b) == gcd(b, a)); lcm(a, b) is canonical zero when
\* either is zero, else the positive least common multiple, and
\* gcd(a, b) * lcm(a, b) == |a * b|.
C13_GcdLcm == GcdLcmOk(x, y)

\* the same for arguments other than the negative zero
C13_ExceptNegativeZero == x # NegZero /\ y # NegZero => GcdLcmOk(x, y)

(***************************************************************************)
(* SpecPrime: isPrime(x).  n is the witness that rejected x, 0 when the    *)
(* answer did not come from a witness.                                     *)
(***************************************************************************)

MaxPrimeArg == 130

InitPrime ==
    /\ x \in ValuesUpTo(MaxPrimeArg)
    /\ y = ZERO
    /\ z = ZERO
    /\ n = 0
    /\ s = <<>>
    /\ op = "init"
    /\ out = Return(FALSE)
    /\ err = "none"

\* isPrime(x), under each choice of the random witnesses
DoIsPrime ==
    /\ op = "init"
    /\ \E r \in isPrime(x) :
          /\ out' = Return(r.result)
          /\ n' = r.witness
    /\ op' = "isPrime"
    /\ err' = "none"
    /\ UNCHANGED <<x, y, z, s>>

\* isPrime(|x|)
DoIsPrimeAbs ==
    /\ op = "init"
    /\ \E r \in isPrime(abs(x)) :
          /\ out' = Return(r.result)
          /\ n' = r.witness
    /\ op' = "isPrimeAbs"
    /\ err' = "none"
    /\ UNCHANGED <<x, y, z, s>>

NextPrime == DoIsPrime \/ DoIsPrimeAbs

SpecPrime == InitPrime /\ [][NextPrime]_vars

\* what the claim says of the answer out.val for the integer v
IsPrimeOk(v) ==
    /\ out.err = "none"
    /\ (v <= 1 => out.val = FALSE)
    /\ (v = 2 => out.val = TRUE)
    /\ (v > 2 /\ v % 2 = 0 => out.val = FALSE)
    /\ (v >= 3 /\ v <= TrialLimit /\ v % 2 = 1 => out.val = IsPrimeInt(v))
    /\ (v > TrialLimit /\ IsPrimeInt(v) => out.val = TRUE)
    /\ (v > TrialLimit /\ v % 2 = 1 /\ out.val = FALSE =>
          /\ n \in WitnessLow..WitnessHigh
          /\ GcdInt(n, v) > 1)

\* C12: isPrime(n) is false for every n <= 1 and every even n > 2, true for
\* n = 2, the true primality for every odd n in 3..100; for n > 100, under
\* every choice of the witnesses drawn from 2..100, it is never false of a
\* prime: it is false only if a drawn witness has a common factor > 1 with n.
C12_IsPrime ==
    /\ (op = "isPrime" => IsPrimeOk(Val(x)))
    /\ (op = "isPrimeAbs" => IsPrimeOk(AbsInt(Val(x))))

\* a prime above the trial-division range has passed every witness
C12_Witness ==
    /\ op = "isPrime"
    /\ Val(x) > TrialLimit
    /\ IsPrimeInt(Val(x))
    /\ out.val = TRUE
====
